---- MODULE Spec2Model ----
(***************************************************************************)
(* fuzzylite/variable.py: the OutputVariable of pyfuzzylite (a Variable    *)
(* with an embedded Aggregated fuzzy set, a defuzzifier and the            *)
(* lock-previous / default / lock-range policies), under scalar semantics. *)
(*                                                                         *)
(* Scalars are IEEE doubles.  The model keeps the three non-finite values  *)
(* apart from the finite ones: finite values are the integers 0..MaxVal,   *)
(* +inf and -inf are integers beyond every finite value (so that <, <=     *)
(* order them as IEEE does), and nan is a value on which every comparison  *)
(* is made false explicitly (Le, Lt below).                                *)
(***************************************************************************)
EXTENDS Integers, Sequences, FiniteSets, TLC

\* ---------------------------------------------------------------- bounds
MaxVal == 1
MaxTerms == 1
MaxLen == 2
MaxDeg == 1

\* ------------------------------------------------------------- scalars
\* from .library import inf, nan
inf == 100
neg_inf == 0 - inf
nan == 999

Finite == 0..MaxVal
Scalar == Finite \cup {neg_inf, inf, nan}
\* range bounds written by the callers of the model: any scalar but NaN
Bound == Finite \cup {neg_inf, inf}
Names == {"steer", "tsSteer"}
NoDefuzzifier == "None"
Defuzzifiers == {NoDefuzzifier, "Centroid"}

isnan(x) == x = nan
isfinite(x) == x \in Finite
\* IEEE comparisons: false as soon as one side is NaN
Le(a, b) == ~isnan(a) /\ ~isnan(b) /\ a <= b
Lt(a, b) == ~isnan(a) /\ ~isnan(b) /\ a < b

\* np.maximum / np.minimum propagate NaN
np_maximum(a, b) == IF isnan(a) \/ isnan(b) THEN nan ELSE IF a >= b THEN a ELSE b
np_minimum(a, b) == IF isnan(a) \/ isnan(b) THEN nan ELSE IF a <= b THEN a ELSE b
\* (mutant) only the lower bound is enforced
np_clip_lower(v, lo, hi) == np_maximum(v, lo)

\* np.clip(v, lo, hi) = minimum(maximum(v, lo), hi)
np_clip(v, lo, hi) == np_minimum(np_maximum(v, lo), hi)

\* ---------------------------------------------------------------- state
VARIABLES
    name,            \* Variable.name (instance attribute)
    enabled,         \* Variable.enabled
    lock_range,      \* Variable.lock_range
    value,           \* Variable._value
    fuzzy,           \* OutputVariable.fuzzy: the Aggregated (name, minimum, maximum, terms)
    defuzzifier,     \* OutputVariable.defuzzifier
    lock_previous,   \* OutputVariable.lock_previous
    default_value,   \* OutputVariable.default_value
    previous_value,  \* OutputVariable.previous_value
    op,              \* the operation that ran last: "new", "defuzzify", "clear", "activate",
                     \* "value" (a write to value) or "attribute" (a write to another attribute)
    after_clear,     \* whether the operation before that one was clear()
    raised,          \* whether that operation raised
    raw,             \* defuzzify's local `value` as the defuzzifier returned it (nan when none ran)
    terms,           \* Variable.terms: the names of the terms, in declared order
    mu,              \* what term.membership(x) did for each term in the last fuzzify /
                     \* highest_membership call (<<>> when none ran)
    fz,              \* the entries fuzzify joined, when it ran last (<<>> otherwise)
    hm,              \* the (degree, term) highest_membership returned, when it ran last
                     \* ((0, 0) otherwise); term is a position in terms, 0 is None
    found            \* the position of the term that term(name) returned, when it ran
                     \* last (0 otherwise, and when it raised)

vars == <<name, enabled, lock_range, value, fuzzy, defuzzifier, lock_previous,
          default_value, previous_value, op, after_clear, raised, raw,
          terms, mu, fz, hm, found>>

\* what no method of the output variable's inference life cycle writes
config == <<enabled, defuzzifier, lock_previous, default_value, terms, mu, fz, hm, found>>

\* OutputVariable.minimum / maximum are properties reading the Aggregated
minimum == fuzzy.minimum
maximum == fuzzy.maximum

\* (mutant) the setter stores the value as given
ValueSetter_NoClip(v) == v

\* Variable.value setter
ValueSetter(v) == IF lock_range THEN np_clip(v, minimum, maximum) ELSE v

\* Aggregated(name=, minimum=, maximum=, aggregation=): no term activated yet
Aggregated(n, lo, hi) == [name |-> n, minimum |-> lo, maximum |-> hi, terms |-> 0]

\* Aggregated.clear()
AggregatedClear(f) == [f EXCEPT !.terms = 0]

\* Defuzzifier.defuzzify(fuzzy, minimum, maximum): the results it can return
DefuzzifierResults(f) == IF f.terms = 0 THEN {nan} ELSE Scalar

\* result: tuple[Scalar, Term | None] = (0.0, None)
NoResult == [degree |-> 0, term |-> 0]

\* OutputVariable.__init__ (terms left at its default, no terms)
Init ==
    /\ name \in Names
    /\ enabled \in BOOLEAN
    /\ lock_range \in BOOLEAN
    /\ \E lo \in Bound, hi \in Bound : fuzzy = Aggregated(name, lo, hi)
    /\ value = nan
    /\ defuzzifier \in Defuzzifiers
    /\ lock_previous \in BOOLEAN
    /\ default_value \in Scalar
    /\ previous_value = nan
    /\ op = "new"
    /\ after_clear = FALSE
    /\ raised = FALSE
    /\ raw = nan
    /\ terms = <<>>
    /\ mu = <<>>
    /\ fz = <<>>
    /\ hm = NoResult
    /\ found = 0

\* ------------------------------------------------------------ defuzzify
\* (mutant) the previous value replaces the result whenever lock_previous is on
LockPrevious_Always(y, previous) ==
    IF lock_previous /\ ~isnan(previous) THEN previous ELSE y

\* "Locking previous values"
LockPrevious(y, previous) ==
    IF lock_previous /\ isnan(y) THEN previous ELSE y

\* "Applying default values"
ApplyDefault(y) ==
    IF ~isnan(default_value) /\ isnan(y) THEN default_value ELSE y

\* (mutant) the defuzzifier is looked for before the enabled flag
Defuzzify_ChecksDefuzzifierFirst ==
    /\ op' = "defuzzify"
    /\ after_clear' = (op = "clear")
    /\ IF defuzzifier = NoDefuzzifier
       THEN /\ raised' = TRUE
            /\ raw' = nan
            /\ UNCHANGED <<value, previous_value>>
       ELSE IF ~enabled
       THEN /\ raised' = FALSE
            /\ raw' = nan
            /\ UNCHANGED <<value, previous_value>>
       ELSE \E y \in DefuzzifierResults(fuzzy) :
            /\ raised' = FALSE
            /\ raw' = y
            /\ previous_value' = value
            /\ value' = ValueSetter(ApplyDefault(LockPrevious(y, value)))
    /\ UNCHANGED <<name, lock_range, fuzzy, config>>

\* (mutant) previous_value is updated before the defuzzifier is looked for
Defuzzify_UpdatesFirst ==
    /\ op' = "defuzzify"
    /\ after_clear' = (op = "clear")
    /\ IF ~enabled
       THEN /\ raised' = FALSE
            /\ raw' = nan
            /\ UNCHANGED <<value, previous_value>>
       ELSE IF defuzzifier = NoDefuzzifier
       THEN /\ raised' = TRUE
            /\ raw' = nan
            /\ previous_value' = value
            /\ UNCHANGED value
       ELSE \E y \in DefuzzifierResults(fuzzy) :
            /\ raised' = FALSE
            /\ raw' = y
            /\ previous_value' = value
            /\ value' = ValueSetter(ApplyDefault(LockPrevious(y, value)))
    /\ UNCHANGED <<name, lock_range, fuzzy, config>>

\* OutputVariable.defuzzify
Defuzzify ==
    /\ op' = "defuzzify"
    /\ after_clear' = (op = "clear")
    /\ IF ~enabled
       THEN /\ raised' = FALSE
            /\ raw' = nan
            /\ UNCHANGED <<value, previous_value>>
       ELSE IF defuzzifier = NoDefuzzifier
       THEN /\ raised' = TRUE
            /\ raw' = nan
            /\ UNCHANGED <<value, previous_value>>
       ELSE \E y \in DefuzzifierResults(fuzzy) :
            /\ raised' = FALSE
            /\ raw' = y
            /\ previous_value' = value
            /\ value' = ValueSetter(ApplyDefault(LockPrevious(y, value)))
    /\ UNCHANGED <<name, lock_range, fuzzy, config>>

\* (mutant) clear() forgets to reset previous_value
Clear_KeepsPrevious ==
    /\ op' = "clear"
    /\ after_clear' = (op = "clear")
    /\ raised' = FALSE
    /\ raw' = nan
    /\ fuzzy' = AggregatedClear(fuzzy)
    /\ value' = ValueSetter(nan)
    /\ UNCHANGED <<name, lock_range, previous_value, config>>

\* (mutant) clear() forgets to reset the value
Clear_KeepsValue ==
    /\ op' = "clear"
    /\ after_clear' = (op = "clear")
    /\ raised' = FALSE
    /\ raw' = nan
    /\ fuzzy' = AggregatedClear(fuzzy)
    /\ previous_value' = nan
    /\ UNCHANGED <<name, lock_range, value, config>>

\* OutputVariable.clear
Clear ==
    /\ op' = "clear"
    /\ after_clear' = (op = "clear")
    /\ raised' = FALSE
    /\ raw' = nan
    /\ fuzzy' = AggregatedClear(fuzzy)
    /\ previous_value' = nan
    /\ value' = ValueSetter(nan)
    /\ UNCHANGED <<name, lock_range, config>>

\* a rule block appends an Activated term to the output's fuzzy set
Activate ==
    /\ fuzzy.terms < MaxTerms
    /\ op' = "activate"
    /\ after_clear' = (op = "clear")
    /\ raised' = FALSE
    /\ raw' = nan
    /\ fuzzy' = [fuzzy EXCEPT !.terms = @ + 1]
    /\ UNCHANGED <<name, lock_range, value, previous_value, config>>

\* ----------------------------------------------------- attribute writes
\* variable.value = v
SetValue ==
    \E v \in Scalar :
        /\ op' = "value"
        /\ after_clear' = (op = "clear")
        /\ raised' = FALSE
        /\ raw' = nan
        /\ value' = ValueSetter(v)
        /\ UNCHANGED <<name, lock_range, fuzzy, previous_value, config>>

\* variable.minimum = v
SetMinimum ==
    \E v \in Bound :
        /\ op' = "attribute"
        /\ after_clear' = (op = "clear")
        /\ raised' = FALSE
        /\ raw' = nan
        /\ fuzzy' = [fuzzy EXCEPT !.minimum = v]
        /\ UNCHANGED <<name, lock_range, value, previous_value, config>>

\* variable.maximum = v
SetMaximum ==
    \E v \in Bound :
        /\ op' = "attribute"
        /\ after_clear' = (op = "clear")
        /\ raised' = FALSE
        /\ raw' = nan
        /\ fuzzy' = [fuzzy EXCEPT !.maximum = v]
        /\ UNCHANGED <<name, lock_range, value, previous_value, config>>

\* variable.range = (lo, hi)
SetRange ==
    \E lo \in Bound, hi \in Bound :
        /\ op' = "attribute"
        /\ after_clear' = (op = "clear")
        /\ raised' = FALSE
        /\ raw' = nan
        /\ fuzzy' = [fuzzy EXCEPT !.minimum = lo, !.maximum = hi]
        /\ UNCHANGED <<name, lock_range, value, previous_value, config>>

\* variable.lock_range = b
SetLockRange ==
    \E b \in BOOLEAN :
        /\ op' = "attribute"
        /\ after_clear' = (op = "clear")
        /\ raised' = FALSE
        /\ raw' = nan
        /\ lock_range' = b
        /\ UNCHANGED <<name, fuzzy, value, previous_value, config>>

\* variable.name = n
SetName ==
    \E n \in Names :
        /\ op' = "attribute"
        /\ after_clear' = (op = "clear")
        /\ raised' = FALSE
        /\ raw' = nan
        /\ name' = n
        /\ UNCHANGED <<lock_range, fuzzy, value, previous_value, config>>

\* the inference life cycle of an output variable, with the attribute writes
\* that change what the value setter does
Next ==
    \/ Defuzzify
    \/ Clear
    \/ Activate
    \/ SetValue
    \/ SetMinimum
    \/ SetMaximum
    \/ SetRange
    \/ SetLockRange

Spec == Init /\ [][Next]_vars

\* any sequence of attribute writes on a constructed variable
NextAttr ==
    \/ SetName
    \/ SetValue
    \/ SetMinimum
    \/ SetMaximum
    \/ SetRange
    \/ SetLockRange

SpecAttr == Init /\ [][NextAttr]_vars

\* ------------------------------------------------------ terms of a variable
TermNames == {"left", "right"}
TermLists == UNION {[1..n -> TermNames] : n \in 0..MaxLen}

\* the membership degrees a term can return: negative ones come from Constant,
\* Linear and Function terms
Degree == (0 - MaxDeg)..MaxDeg \cup {nan}

\* term.membership(x) returns a degree or raises ValueError
Membership == [raises : {FALSE}, fx : Degree] \cup {[raises |-> TRUE, fx |-> nan]}

\* fx = scalar(nan); with contextlib.suppress(ValueError): fx = term.membership(x)
Suppressed(m) == IF m.raises THEN nan ELSE m.fx

\* Op.str(fx): the number printed with its own sign
OpStr(fx) ==
    [sign |-> IF Lt(fx, 0) THEN "-" ELSE "",
     digits |-> IF isnan(fx) THEN nan ELSE IF fx < 0 THEN 0 - fx ELSE fx]

\* the entry fuzzify appends for the i-th term
FuzzifyEntry(ts, ms, i) ==
    LET fx == Suppressed(ms[i])
    IN  IF i = 1
        THEN [sep |-> "", degree |-> OpStr(fx), name |-> ts[i]]
        ELSE [sep |-> IF Le(0, fx) \/ isnan(fx) THEN " + " ELSE " - ",
              degree |-> OpStr(fx), name |-> ts[i]]

\* Variable.fuzzify: the entries that "".join(result) concatenates
fuzzify(ts, ms) == [i \in 1..Len(ts) |-> FuzzifyEntry(ts, ms, i)]

\* (mutant) a later term of equal membership replaces the earlier one
RECURSIVE HighestFrom_Ge(_, _, _)
HighestFrom_Ge(ms, i, result) ==
    IF i > Len(ms) THEN result
    ELSE LET y == Suppressed(ms[i])
         IN  HighestFrom_Ge(ms, i + 1,
                 IF Le(result.degree, y) THEN [degree |-> y, term |-> i] ELSE result)

\* the loop of highest_membership from the i-th term on: if y > result[0]
RECURSIVE HighestFrom(_, _, _)
HighestFrom(ms, i, result) ==
    IF i > Len(ms) THEN result
    ELSE LET y == Suppressed(ms[i])
         IN  HighestFrom(ms, i + 1,
                 IF Lt(result.degree, y) THEN [degree |-> y, term |-> i] ELSE result)

\* Variable.highest_membership: result starts as (0.0, None)
highest_membership(ms) == HighestFrom(ms, 1, NoResult)

\* the positions of the terms named n
Named(ts, n) == {i \in 1..Len(ts) : ts[i] = n}

\* Variable.term: the first term of that name, 0 when the loop finds none
term(ts, n) ==
    IF Named(ts, n) = {} THEN 0
    ELSE CHOOSE i \in Named(ts, n) : \A j \in Named(ts, n) : i <= j

\* Variable.__init__ with a list of terms; the output variable's own settings
\* are left at their defaults
InitTerms ==
    /\ name \in Names
    /\ enabled = TRUE
    /\ lock_range = FALSE
    /\ fuzzy = Aggregated(name, neg_inf, inf)
    /\ value = nan
    /\ defuzzifier = NoDefuzzifier
    /\ lock_previous = FALSE
    /\ default_value = nan
    /\ previous_value = nan
    /\ op = "new"
    /\ after_clear = FALSE
    /\ raised = FALSE
    /\ raw = nan
    /\ terms \in TermLists
    /\ mu = <<>>
    /\ fz = <<>>
    /\ hm = NoResult
    /\ found = 0

\* what the methods on terms leave alone
untouched == <<name, enabled, lock_range, value, fuzzy, defuzzifier, lock_previous,
               default_value, previous_value, raw>>

\* variable.fuzzify(x), each term's membership(x) being an input
Fuzzify ==
    \E ms \in [1..Len(terms) -> Membership] :
        /\ op' = "fuzzify"
        /\ after_clear' = (op = "clear")
        /\ raised' = FALSE
        /\ mu' = ms
        /\ fz' = fuzzify(terms, ms)
        /\ hm' = NoResult
        /\ found' = 0
        /\ UNCHANGED <<untouched, terms>>

\* variable.highest_membership(x), each term's membership(x) being an input
HighestMembership ==
    \E ms \in [1..Len(terms) -> Membership] :
        /\ op' = "highest_membership"
        /\ after_clear' = (op = "clear")
        /\ raised' = FALSE
        /\ mu' = ms
        /\ hm' = highest_membership(ms)
        /\ fz' = <<>>
        /\ found' = 0
        /\ UNCHANGED <<untouched, terms>>

\* variable.term(n)
Term ==
    \E n \in TermNames :
        /\ op' = "term"
        /\ after_clear' = (op = "clear")
        /\ raised' = (term(terms, n) = 0)
        /\ found' = term(terms, n)
        /\ mu' = <<>>
        /\ fz' = <<>>
        /\ hm' = NoResult
        /\ UNCHANGED <<untouched, terms>>

\* variable.terms = ts
SetTerms ==
    \E ts \in TermLists :
        /\ op' = "terms"
        /\ after_clear' = (op = "clear")
        /\ raised' = FALSE
        /\ terms' = ts
        /\ mu' = <<>>
        /\ fz' = <<>>
        /\ hm' = NoResult
        /\ found' = 0
        /\ UNCHANGED untouched

\* the methods of a variable that read its terms, and the write of the list
NextTerms ==
    \/ Fuzzify
    \/ HighestMembership
    \/ Term
    \/ SetTerms

SpecTerms == InitTerms /\ [][NextTerms]_vars

\* the completed defuzzify() calls: the variable was enabled and had a defuzzifier
Stored == op = "defuzzify" /\ enabled /\ ~raised

InRangeOrNaN(v) == isnan(v) \/ (Le(minimum, v) /\ Le(v, maximum))

\* ------------------------------------------------------------- claims
\* what the lock-previous step of the completed call left in y: previous_value
\* is, after the call, the value it was compared against
AfterLock == LockPrevious(raw, previous_value)

\* C1: after a completed defuzzify() with lock_previous true, a non-finite raw
\* result (NaN, +inf or -inf) and a finite previous_value, the stored value is
\* previous_value (through the value setter), whatever default_value is.
C1_LockPreviousWins ==
    (Stored /\ lock_previous /\ ~isfinite(raw) /\ isfinite(previous_value))
        => value = ValueSetter(previous_value)

\* C2: after a completed defuzzify(), when the result of the lock-previous step
\* is still non-finite (NaN, +inf or -inf) and default_value is finite, the
\* stored value is default_value (through the value setter, which clamps it
\* when lock_range is true).
C2_DefaultReplacesNonFinite ==
    (Stored /\ ~isfinite(AfterLock) /\ isfinite(default_value))
        => value = ValueSetter(default_value)

\* C3: after every completed defuzzify() of a variable with lock_range true and
\* minimum <= maximum, the stored value is NaN or lies within [minimum, maximum].
C3_LockRangeLast ==
    (Stored /\ lock_range /\ Le(minimum, maximum)) => InRangeOrNaN(value)

\* C3 witness: a raw result above the range was stored as the maximum, and a
\* previous value kept from before the range was narrowed was clamped too.
C3_Witness ==
    /\ Stored /\ lock_range /\ Le(minimum, maximum)
    /\ \/ isfinite(raw) /\ Lt(maximum, raw) /\ value = maximum
       \/ isnan(raw) /\ lock_previous /\ Lt(previous_value, minimum) /\ value = minimum

\* C4: after a completed defuzzify() whose raw result y is finite, the stored
\* value is clip(y, minimum, maximum) when lock_range is true and y otherwise,
\* whatever lock_previous, previous_value and default_value are.
C4_FiniteResultStored ==
    (Stored /\ isfinite(raw)) =>
        value = (IF lock_range THEN np_clip(raw, minimum, maximum) ELSE raw)

\* C4 witness: a finite raw result stored while lock_previous is on and both
\* previous_value and default_value are finite and differ from it.
C4_Witness ==
    /\ Stored /\ isfinite(raw) /\ ~lock_range /\ value = raw
    /\ lock_previous /\ isfinite(previous_value) /\ previous_value # raw
    /\ isfinite(default_value) /\ default_value # raw

\* C5: a completed defuzzify() sets previous_value to the value held before the
\* call when that value is finite, and leaves previous_value unchanged when the
\* value held before the call is NaN.
C5_PreviousKeepsLastFinite ==
    [][(op' = "defuzzify" /\ enabled /\ ~raised') =>
          /\ isfinite(value) => previous_value' = value
          /\ isnan(value) => previous_value' = previous_value]_vars

\* C6: clear() leaves the aggregated set empty, previous_value = NaN and
\* value = NaN, and changes no other field (name, range, flags, defuzzifier,
\* default_value).
C6_ClearResets ==
    [][op' = "clear" =>
          /\ fuzzy'.terms = 0
          /\ previous_value' = nan
          /\ value' = nan
          /\ fuzzy'.name = fuzzy.name
          /\ fuzzy'.minimum = fuzzy.minimum
          /\ fuzzy'.maximum = fuzzy.maximum
          /\ UNCHANGED <<name, enabled, lock_range, defuzzifier, lock_previous,
                          default_value>>]_vars

\* C6 witness: clear() has run on a variable with lock_range on a finite range,
\* lock_previous and a finite default, and value is NaN all the same.
C6_Witness ==
    /\ op = "clear" /\ value = nan /\ previous_value = nan /\ fuzzy.terms = 0
    /\ lock_range /\ isfinite(minimum) /\ isfinite(maximum)
    /\ lock_previous /\ isfinite(default_value)

\* C7 (as claimed): a completed defuzzify() that directly follows clear() stores
\* default_value itself when default_value is finite and NaN when it is NaN.
C7_ClearThenDefuzzifyStoresDefault ==
    (Stored /\ after_clear) =>
        /\ isfinite(default_value) => value = default_value
        /\ isnan(default_value) => value = nan

\* C7 (amended): a completed defuzzify() that directly follows clear() stores
\* default_value, clipped to [minimum, maximum] when lock_range is true, when
\* default_value is finite, and NaN when default_value is NaN, whatever
\* lock_previous is.
C7_ClearThenDefuzzifyStoresClippedDefault ==
    (Stored /\ after_clear) =>
        /\ isfinite(default_value) =>
               value = (IF lock_range THEN np_clip(default_value, minimum, maximum)
                                      ELSE default_value)
        /\ isnan(default_value) => value = nan

\* C7 witness: clear() then defuzzify() with lock_previous on stored the finite
\* default, which lock_range clipped to the maximum.
C7_Witness ==
    /\ Stored /\ after_clear /\ lock_previous
    /\ isfinite(default_value) /\ lock_range /\ Le(minimum, maximum)
    /\ Lt(maximum, default_value) /\ value = maximum

\* C8 (as claimed): whenever lock_range is true (and minimum <= maximum), the
\* value read is NaN or within [minimum, maximum], also after the range or
\* lock_range was changed.
C8_ReadWithinRange ==
    (lock_range /\ Le(minimum, maximum)) => InRangeOrNaN(value)

\* C8 (amended): right after a write to value made while lock_range is true and
\* minimum <= maximum, the value read is NaN or within [minimum, maximum].
C8_WriteClamped ==
    (op = "value" /\ lock_range /\ Le(minimum, maximum)) => InRangeOrNaN(value)

\* C8 witness: a write to value under lock_range left the value on a finite
\* bound of a proper range.
C8_Witness ==
    /\ op = "value" /\ lock_range /\ Lt(minimum, maximum)
    /\ isfinite(maximum) /\ value = maximum

\* C9: the embedded Aggregated set has the same name, minimum and maximum as
\* the variable after construction and after any write to name, minimum,
\* maximum or range.
C9_FuzzyMirrorsVariable ==
    /\ fuzzy.name = name
    /\ fuzzy.minimum = minimum
    /\ fuzzy.maximum = maximum

\* C10 (as claimed): defuzzify() on a variable without a defuzzifier raises and
\* leaves value, previous_value and the aggregated set unchanged.
C10_NoDefuzzifierRaises ==
    [][(op' = "defuzzify" /\ defuzzifier = NoDefuzzifier) =>
          raised' /\ UNCHANGED <<value, previous_value, fuzzy>>]_vars

\* C10 (amended): defuzzify() on an enabled variable without a defuzzifier
\* raises and leaves value, previous_value and the aggregated set unchanged.
C10_EnabledNoDefuzzifierRaises ==
    [][(op' = "defuzzify" /\ enabled /\ defuzzifier = NoDefuzzifier) =>
          raised' /\ UNCHANGED <<value, previous_value, fuzzy>>]_vars

\* C10 witness: defuzzify() raised on a variable holding a finite value that
\* differs from previous_value and an activated term.
C10_Witness ==
    /\ op = "defuzzify" /\ raised /\ enabled /\ defuzzifier = NoDefuzzifier
    /\ isfinite(value) /\ previous_value # value /\ fuzzy.terms > 0

\* C11: fuzzify(x) emits one entry per term, in declared order, named after
\* its term and giving its degree (NaN when membership raised); the first entry
\* has no separator; a later entry has " + " when its membership is >= 0 or NaN
\* and " - " when it is negative, and then the degree is printed without a sign
\* of its own: the separator alone carries it.
C11_FuzzifyEntries ==
    op = "fuzzify" =>
        /\ Len(fz) = Len(terms)
        /\ \A i \in 1..Len(fz) :
              LET fx == Suppressed(mu[i])
              IN  /\ fz[i].name = terms[i]
                  /\ mu[i].raises => fz[i].degree.digits = nan
                  /\ fz[i].degree.digits = (IF isnan(fx) THEN nan
                                            ELSE IF fx < 0 THEN 0 - fx ELSE fx)
                  /\ i = 1 => fz[i].sep = ""
                  /\ (i > 1 /\ (Le(0, fx) \/ isnan(fx))) => fz[i].sep = " + "
                  /\ (i > 1 /\ Lt(fx, 0)) =>
                         fz[i].sep = " - " /\ fz[i].degree.sign = ""

C13_TermNamesUnique ==
    \A i, j \in 1..Len(terms) : terms[i] = terms[j] => i = j

\* C14: defuzzify() on a variable with enabled = false changes neither value nor
\* previous_value nor the aggregated set, does not invoke the defuzzifier (no
\* raw result exists) and raises nothing, also when the variable has no
\* defuzzifier.
C14_DisabledDefuzzifyIsNoOp ==
    [][(op' = "defuzzify" /\ ~enabled) =>
          /\ ~raised'
          /\ raw' = nan
          /\ UNCHANGED <<value, previous_value, fuzzy>>]_vars

\* C14 witness: defuzzify() returned without raising on a disabled variable
\* that has no defuzzifier, holds a finite value and an activated term.
C14_Witness ==
    /\ op = "defuzzify" /\ ~enabled /\ ~raised
    /\ defuzzifier = NoDefuzzifier
    /\ isfinite(value) /\ previous_value # value /\ fuzzy.terms > 0

====
